---------------------------- MODULE Spec2Model ----------------------------
(***************************************************************************)
(* A model of the SPOT / SIRI price pipeline:                              *)
(*   comparison.py       get_stock_data, upload_to_rds_per_service,        *)
(*                       save_to_csv, compare_companies and the script's  *)
(*                       main block;                                       *)
(*   database_access.py  RDSDataAccess (the readers and compare_services). *)
(*                                                                         *)
(* Three specifications share the variables:                               *)
(*   SpecFetch  get_stock_data as a function of the provider's answer and  *)
(*              the clock;                                                 *)
(*   Spec       the store and the operations called on it one at a time    *)
(*              (upload_to_rds_per_service, the RDSDataAccess readers,     *)
(*              compare_services) together with compare_companies;         *)
(*   SpecMain   one run of the main block of comparison.py.                *)
(*                                                                         *)
(* Numbers.  A float is modelled by the integer number of 1/Scale units    *)
(* it holds; a numeric string "w.f" of the provider by the pair <<w, f>>.  *)
(* A quotient (the normalised prices, the returns) is a reduced fraction   *)
(* <<n, d>>; NaN is <<0, 0>>.  A pandas timestamp is a number of ticks,    *)
(* TicksPerDay to the day, so that a calendar date d is the tick           *)
(* d * TicksPerDay (midnight) and datetime.today() carries a time of day.  *)
(***************************************************************************)
EXTENDS Integers, Sequences, FiniteSets, TLC

VARIABLES
    store,        \* the committed rows of stock_data, per database
    fetchCall,    \* the last call of get_stock_data (SpecFetch)
    call,         \* the last operation called on the store or comparator (Spec)
    pc,           \* main block: where the script stands
    idx,          \* main block: position of the for loop in TICKERS
    df,           \* main block: the loop's current DataFrame
    dataframes,   \* main block: the dict ticker -> DataFrame
    files,        \* main block: the files written so far
    hist          \* main block: what happened to each ticker (history)

vars == <<store, fetchCall, call, pc, idx, df, dataframes, files, hist>>

(***************************************************************************)
(* Bounds of the model.                                                    *)
(***************************************************************************)
\* ticks in a day: the resolution of the time of day
TicksPerDay == 2
\* units in 1.0: the resolution of a float
Scale == 2
\* the calendar day on which the program runs
Today == 2590
\* the longest provider answer, in rows
MaxRows == 3
\* the largest whole part of a price or volume string
MaxClose == 2

(***************************************************************************)
(* Configuration of the program.                                           *)
(***************************************************************************)
months_back == 86

TICKERS == <<"SPOT", "SIRI">>

\* ticker_db_map of upload_to_rds_per_service, service_dbs of RDSDataAccess
ticker_db_map == [t \in {"SPOT", "SIRI"} |-> IF t = "SPOT" THEN "spotify_service"
                                                            ELSE "siriusxm_service"]

Databases == {ticker_db_map[t] : t \in DOMAIN ticker_db_map}

\* a ticker no database is mapped for
OtherTicker == "AAPL"

(***************************************************************************)
(* Dates and timestamps.                                                   *)
(***************************************************************************)
\* timedelta(days=30*months_back), in days
WindowDays == 30 * months_back

\* pd.to_datetime of a "YYYY-MM-DD" key: midnight of that day
to_datetime(d) == d * TicksPerDay

\* Timestamp.date(): the calendar day of a timestamp
DateOf(ts) == ts \div TicksPerDay

\* datetime.today(): today, with the time of day
Nows == {Today * TicksPerDay + tod : tod \in 0 .. TicksPerDay - 1}

end_date_of(now) == now

start_date_of(now) == now - WindowDays * TicksPerDay

\* the calendar days the provider's answers may hold: around both ends of
\* the window
DayCands == {Today - WindowDays - 1, Today - WindowDays, Today, Today + 1}

(***************************************************************************)
(* DataFrames.  None is told apart from an empty frame.                    *)
(***************************************************************************)
None == [none |-> TRUE, rows |-> <<>>]

DataFrame(rows) == [none |-> FALSE, rows |-> rows]

\* df.index as a set
IndexSet(rows) == {rows[i].index : i \in 1 .. Len(rows)}

(***************************************************************************)
(* The provider's answer.                                                  *)
(***************************************************************************)
\* float("w.f")
Float(s) == s[1] * Scale + s[2]

\* one value of "Time Series (Daily)": field label -> numeric string
RawRow(c) ==
    ("1. open" :> <<c, 0>>) @@ ("2. high" :> <<c, 1>>) @@ ("3. low" :> <<c - 1, 1>>)
    @@ ("4. close" :> <<c, 0>>) @@ ("5. volume" :> <<c, 1>>)

RawRows == {RawRow(c) : c \in 1 .. MaxClose}

Entries == [date : DayCands, row : RawRows]

\* a JSON object keyed by date: the keys are distinct, their order is any
Series ==
    {s \in UNION {[1 .. n -> Entries] : n \in 0 .. MaxRows} :
        \A i, j \in 1 .. Len(s) : s[i].date = s[j].date => i = j}

\* what requests.get / raise_for_status / response.json() come to
HttpOutcomes ==
    {[kind |-> k, series |-> <<>>] : k \in {"transport", "status", "nokey"}}
    \cup {[kind |-> "ok", series |-> s] : s \in Series}

(***************************************************************************)
(* get_stock_data                                                          *)
(***************************************************************************)
RECURSIVE InsertByIndex(_, _)
InsertByIndex(r, s) ==
    IF s = <<>> THEN <<r>>
    ELSE IF r.index < Head(s).index THEN <<r>> \o s
    ELSE <<Head(s)>> \o InsertByIndex(r, Tail(s))

\* df.sort_index(ascending=True)
RECURSIVE sort_index(_)
sort_index(s) ==
    IF s = <<>> THEN <<>> ELSE InsertByIndex(Head(s), sort_index(Tail(s)))

\* a variant of the mask below that leaves the end of the window out
MaskStrictEnd(ts, start_date, end_date) == ts >= start_date /\ ts < end_date

\* mask = (df.index >= start_date) & (df.index <= end_date)
Mask(ts, start_date, end_date) == ts >= start_date /\ ts <= end_date

\* pd.DataFrame(data["Time Series (Daily)"]).T with df.index = pd.to_datetime(..)
Frame(series) ==
    [i \in 1 .. Len(series) |-> [index |-> to_datetime(series[i].date),
                                 raw |-> series[i].row]]

\* rename(columns=column_map)[...], astype(float), df['Ticker'] = ticker
Columns(r, ticker) ==
    [index |-> r.index,
     Open |-> Float(r.raw["1. open"]), High |-> Float(r.raw["2. high"]),
     Low |-> Float(r.raw["3. low"]), Close |-> Float(r.raw["4. close"]),
     Volume |-> Float(r.raw["5. volume"]), Ticker |-> ticker]

\* a variant of the branch below that answers with an empty table
OnMissingKeyEmpty == DataFrame(<<>>)

\* the branch taken when "Time Series (Daily)" is not in the answer
OnMissingKey == None

get_stock_data(ticker, http, now) ==
    LET end_date == end_date_of(now)
        start_date == start_date_of(now)
        sorted == sort_index(Frame(http.series))
        masked == SelectSeq(sorted, LAMBDA r : Mask(r.index, start_date, end_date))
    IN  IF http.kind \in {"transport", "status"} THEN None   \* except Exception
        ELSE IF http.kind = "nokey" THEN OnMissingKey
        \* an answer with no day at all has no columns: the column selection
        \* raises KeyError, which the except clause turns into None
        ELSE IF http.series = <<>> THEN None
        ELSE DataFrame([i \in 1 .. Len(masked) |-> Columns(masked[i], ticker)])

(***************************************************************************)
(* SpecFetch: get_stock_data on every answer and clock of the bounds.      *)
(***************************************************************************)
NoFetch == [op |-> "none"]

NoCall == [op |-> "none"]

MainIdle ==
    /\ pc = "idle" /\ idx = 1 /\ df = None
    /\ dataframes = [t \in {} |-> None]
    /\ files = {}
    /\ hist = [fetched |-> {}, uploaded |-> {}, failed |-> {}, compared |-> FALSE]

InitFetch ==
    /\ store = [d \in Databases |-> {}]
    /\ fetchCall = NoFetch
    /\ call = NoCall
    /\ MainIdle

CallGetStockData ==
    /\ fetchCall.op = "none"
    /\ \E ticker \in {"SPOT", "SIRI"}, http \in HttpOutcomes, now \in Nows :
          fetchCall' = [op |-> "get_stock_data", ticker |-> ticker, http |-> http,
                        start_date |-> start_date_of(now),
                        end_date |-> end_date_of(now),
                        result |-> get_stock_data(ticker, http, now)]
    /\ UNCHANGED <<store, call, pc, idx, df, dataframes, files, hist>>

NextFetch == CallGetStockData

SpecFetch == InitFetch /\ [][NextFetch]_vars

(***************************************************************************)
(* The store: one table stock_data per database.                           *)
(***************************************************************************)
\* int(row['Volume'])
IntOf(v) == v \div Scale

\* the parameters of one cursor.execute(insert_query, ...)
StoreRow(r) ==
    [date |-> DateOf(r.index), open |-> r.Open, high |-> r.High, low |-> r.Low,
     close |-> r.Close, volume |-> IntOf(r.Volume), ticker |-> r.Ticker]

\* two rows the table's uniqueness constraint takes for the same
SameKey(a, b) == a.date = b.date /\ a.ticker = b.ticker

\* a variant of the statement below without its ON DUPLICATE KEY clause
InsertOnly(rows, new) == rows \cup {new}

\* INSERT ... ON DUPLICATE KEY UPDATE open=VALUES(open), ...
Upsert(rows, new) == {r \in rows : ~SameKey(r, new)} \cup {new}

\* the for loop over df.iterrows(), as far as row n
RECURSIVE ExecuteRows(_, _, _)
ExecuteRows(rows, dfrows, n) ==
    IF n = 0 THEN rows
    ELSE Upsert(ExecuteRows(rows, dfrows, n - 1), StoreRow(dfrows[n]))

\* what can go wrong in one call: mysql.connector.connect raises Error
\* ("refused": the server cannot be reached, "denied": the credentials are
\* rejected) or yields a connection that is not connected ("down"); execute
\* raises Error on row failAt (0: on none), leaving the connection alive or not
UploadFaults(n) ==
    {[connect |-> c, failAt |-> 0, alive |-> FALSE] : c \in {"refused", "denied", "down"}}
    \cup {[connect |-> "ok", failAt |-> 0, alive |-> TRUE]}
    \cup {[connect |-> "ok", failAt |-> k, alive |-> a] : k \in 1 .. n, a \in BOOLEAN}

NoFault == [connect |-> "ok", failAt |-> 0, alive |-> TRUE]

Return(v) == [kind |-> "return", value |-> v]

Raise(e) == [kind |-> "raise", value |-> e]

\* st is the committed content of every database (the connector's default:
\* no autocommit, so what is not committed is rolled back at the close).  The result: how the call
\* ends for its caller (outcome), what it printed (log), the connection as the
\* call leaves it, the rows whose execute succeeded and the store afterwards.
upload_to_rds_per_service(dfv, ticker, st, fault) ==
    LET n == Len(dfv.rows)
        database == ticker_db_map[ticker]
    IN  IF ticker \notin DOMAIN ticker_db_map
        THEN [outcome |-> Return("None"), log |-> <<"No database mapped">>,
              connection |-> "none", executed |-> <<>>, committed |-> FALSE,
              store |-> st]
        ELSE IF fault.connect \in {"refused", "denied"}
        \* except Error prints; the finally clause then reads `connection`,
        \* which was never bound
        THEN [outcome |-> Raise("UnboundLocalError"),
              log |-> <<"Error connecting to MySQL">>,
              connection |-> "unbound", executed |-> <<>>, committed |-> FALSE,
              store |-> st]
        ELSE IF fault.connect = "down"
        THEN [outcome |-> Return("None"), log |-> <<>>,
              connection |-> "not connected", executed |-> <<>>,
              committed |-> FALSE, store |-> st]
        ELSE IF fault.failAt \in 1 .. n
        \* the loop stops at the failing row; nothing is committed, and the
        \* close of the finally clause rolls the transaction back
        THEN [outcome |-> Return("None"),
              log |-> <<"Connected", "Error connecting to MySQL">>
                      \o (IF fault.alive THEN <<"MySQL connection closed">> ELSE <<>>),
              connection |-> IF fault.alive THEN "closed" ELSE "not connected",
              executed |-> [i \in 1 .. fault.failAt - 1 |-> StoreRow(dfv.rows[i])],
              committed |-> FALSE, store |-> st]
        ELSE [outcome |-> Return("None"),
              log |-> <<"Connected", "Uploaded", "MySQL connection closed">>,
              connection |-> "closed",
              executed |-> [i \in 1 .. n |-> StoreRow(dfv.rows[i])],
              committed |-> TRUE,
              store |-> [st EXCEPT ![database] = ExecuteRows(st[database], dfv.rows, n)]]

(***************************************************************************)
(* RDSDataAccess: the readers.                                             *)
(***************************************************************************)
days_default == 30

\* what can go wrong in one reader call: "connect": connect raises Error;
\* "error": a mysql.connector Error reaches the except clause of the reader;
\* "other": any other exception is raised in the try block (pandas reports a
\* failed query as its own DatabaseError)
ReaderFaults == {"ok", "connect", "error", "other"}

\* ORDER BY date DESC
RECURSIVE OrderByDateDesc(_)
OrderByDateDesc(rows) ==
    IF rows = {} THEN <<>>
    ELSE LET m == CHOOSE r \in rows : \A q \in rows : q.date <= r.date
         IN  <<m>> \o OrderByDateDesc(rows \ {m})

\* pd.read_sql, df['date'] = pd.to_datetime(df['date']), df.set_index('date')
read_sql(rows) ==
    LET s == OrderByDateDesc(rows)
    IN  DataFrame([i \in 1 .. Len(s) |->
                     [index |-> to_datetime(s[i].date), open |-> s[i].open,
                      high |-> s[i].high, low |-> s[i].low, close |-> s[i].close,
                      volume |-> s[i].volume]])

\* LIMIT n
Limit(dfv, n) ==
    DataFrame(SubSeq(dfv.rows, 1, IF Len(dfv.rows) < n THEN Len(dfv.rows) ELSE n))

\* _get_connection, then the try / except Error / finally every reader shares;
\* rows is what the reader's query selects
Reader(ticker, fault, rows) ==
    IF ticker \notin DOMAIN ticker_db_map
    THEN [outcome |-> Raise("ValueError"), value |-> None, connection |-> "none"]
    ELSE IF fault = "connect"
    THEN [outcome |-> Return("None"), value |-> None, connection |-> "none"]
    ELSE IF fault = "error"
    THEN [outcome |-> Return("None"), value |-> None, connection |-> "closed"]
    ELSE IF fault = "other"
    THEN [outcome |-> Raise("DatabaseError"), value |-> None, connection |-> "closed"]
    ELSE [outcome |-> Return("DataFrame"), value |-> rows, connection |-> "closed"]

RowsOf(st, ticker) ==
    IF ticker \in DOMAIN ticker_db_map THEN st[ticker_db_map[ticker]] ELSE {}

get_all_data(ticker, st, fault) ==
    Reader(ticker, fault, read_sql(RowsOf(st, ticker)))

\* WHERE date BETWEEN %s AND %s
get_data_by_date_range(ticker, start_date, end_date, st, fault) ==
    Reader(ticker, fault,
           read_sql({r \in RowsOf(st, ticker) : start_date <= r.date /\ r.date <= end_date}))

get_latest_records(ticker, days, st, fault) ==
    Reader(ticker, fault, Limit(read_sql(RowsOf(st, ticker)), days))

(***************************************************************************)
(* Quotients of floats.                                                    *)
(***************************************************************************)
NaN == <<0, 0>>

Abs(n) == IF n < 0 THEN -n ELSE n

RECURSIVE GCD(_, _)
GCD(a, b) == IF b = 0 THEN a ELSE GCD(b, a % b)

\* n / d, reduced; d > 0
Frac(n, d) ==
    IF n = 0 THEN <<0, 1>>
    ELSE LET g == GCD(Abs(n), d) IN <<n \div g, d \div g>>

\* close / first * 100 on two floats given as fractions, NaN included
NormOf(close, first) ==
    IF close = NaN \/ first = NaN THEN NaN
    ELSE Frac(close[1] * first[2] * 100, close[2] * first[1])

Hundred == <<100, 1>>

(***************************************************************************)
(* RDSDataAccess.compare_services                                          *)
(***************************************************************************)
\* the value of a Series at a label of the common index, NaN where it has none
AtIndex(rows, ts) ==
    IF \E i \in 1 .. Len(rows) : rows[i].index = ts
    THEN <<(CHOOSE r \in {rows[i] : i \in 1 .. Len(rows)} : r.index = ts).close, 1>>
    ELSE NaN

\* a set of timestamps in ascending order
RECURSIVE Ascending(_)
Ascending(S) ==
    IF S = {} THEN <<>>
    ELSE LET m == CHOOSE x \in S : \A y \in S : x <= y
         IN  <<m>> \o Ascending(S \ {m})

\* pd.DataFrame(comparison_data): the two Series aligned on the union of
\* their indexes; then sort_index()
AlignSeries(spot, siri) ==
    LET labels == Ascending(IndexSet(spot) \cup IndexSet(siri))
    IN  [i \in 1 .. Len(labels) |->
           [index |-> labels[i], SPOT |-> AtIndex(spot, labels[i]),
            SIRI |-> AtIndex(siri, labels[i])]]

compare_services(start_date, end_date, st, f1, f2) ==
    LET r1 == get_data_by_date_range("SPOT", start_date, end_date, st, f1)
        r2 == get_data_by_date_range("SIRI", start_date, end_date, st, f2)
        comparison_df == AlignSeries(r1.value.rows, r2.value.rows)
    IN  IF r1.outcome.kind = "raise"
        THEN [outcome |-> r1.outcome, table |-> <<>>, read |-> {}]
        ELSE IF r2.outcome.kind = "raise"
        THEN [outcome |-> r2.outcome, table |-> <<>>,
              read |-> IF r1.value.none THEN {} ELSE {"SPOT"}]
        ELSE IF r1.value.none \/ r2.value.none
        THEN [outcome |-> Return("None"), table |-> <<>>,
              read |-> (IF r1.value.none THEN {} ELSE {"SPOT"})
                       \cup (IF r2.value.none THEN {} ELSE {"SIRI"})]
        \* .iloc[0] of an empty column
        ELSE IF comparison_df = <<>>
        THEN [outcome |-> Raise("IndexError"), table |-> <<>>, read |-> {"SPOT", "SIRI"}]
        ELSE [outcome |-> Return("DataFrame"),
              table |-> [i \in 1 .. Len(comparison_df) |->
                           [index |-> comparison_df[i].index,
                            SPOT |-> comparison_df[i].SPOT,
                            SIRI |-> comparison_df[i].SIRI,
                            SPOT_Norm |-> NormOf(comparison_df[i].SPOT, comparison_df[1].SPOT),
                            SIRI_Norm |-> NormOf(comparison_df[i].SIRI, comparison_df[1].SIRI)]],
              read |-> {"SPOT", "SIRI"}]

(***************************************************************************)
(* compare_companies                                                       *)
(***************************************************************************)
\* df[['Close']].loc[ts]
CloseAt(rows, ts) == (CHOOSE r \in {rows[i] : i \in 1 .. Len(rows)} : r.index = ts).Close

\* pd.merge(..., left_index=True, right_index=True): the inner join, in the
\* order of the left keys
Merge(left, right) ==
    LET kept == SelectSeq(left, LAMBDA r : r.index \in IndexSet(right))
    IN  [i \in 1 .. Len(kept) |->
           [index |-> kept[i].index, Close_SPOT |-> kept[i].Close,
            Close_SIRI |-> CloseAt(right, kept[i].index)]]

\* Series.pct_change(): close[t] / close[t-1] - 1
PctChange(closes) ==
    [i \in 1 .. Len(closes) |->
       IF i = 1 THEN NaN ELSE Frac(closes[i] - closes[i - 1], closes[i - 1])]

\* The correlation and the volatilities are only printed and are left out.
\* combined['SPOT_Norm'][-1] is read as the last row (the positional fallback
\* of Series.__getitem__).
compare_companies(df1, df2) ==
    LET combined == Merge(df1.rows, df2.rows)
        n == Len(combined)
        table == [i \in 1 .. n |->
                    [index |-> combined[i].index,
                     Close_SPOT |-> combined[i].Close_SPOT,
                     Close_SIRI |-> combined[i].Close_SIRI,
                     SPOT_Norm |-> NormOf(<<combined[i].Close_SPOT, 1>>,
                                          <<combined[1].Close_SPOT, 1>>),
                     SIRI_Norm |-> NormOf(<<combined[i].Close_SIRI, 1>>,
                                          <<combined[1].Close_SIRI, 1>>)]]
    IN  \* .iloc[0] of an empty column raises before anything is plotted
        IF n = 0
        THEN [outcome |-> Raise("IndexError"), table |-> <<>>, chart |-> FALSE,
              returns |-> <<>>, total_return |-> <<>>]
        ELSE [outcome |-> Return("DataFrame"), table |-> table, chart |-> TRUE,
              returns |-> [SPOT |-> PctChange([i \in 1 .. n |-> combined[i].Close_SPOT]),
                           SIRI |-> PctChange([i \in 1 .. n |-> combined[i].Close_SIRI])],
              total_return |->
                  <<Frac(table[n].SPOT_Norm[1] - 100 * table[n].SPOT_Norm[2],
                         table[n].SPOT_Norm[2]),
                    Frac(table[n].SIRI_Norm[1] - 100 * table[n].SIRI_Norm[2],
                         table[n].SIRI_Norm[2])>>]

(***************************************************************************)
(* Spec: the operations on the store, called one at a time.  The store     *)
(* starts as earlier runs may have left it; after a persist that           *)
(* committed, the same table may be persisted again.                       *)
(***************************************************************************)
\* the calendar days a table fetched today may hold, ascending
TableDays == <<Today - WindowDays, Today>>

\* the rows of the table holding close f[i] on TableDays[i] (0: no such day)
TableRows(f, ticker) ==
    LET present == SelectSeq([i \in 1 .. Len(TableDays) |-> i], LAMBDA i : f[i] > 0)
    IN  [k \in 1 .. Len(present) |->
           Columns([index |-> to_datetime(TableDays[present[k]]),
                    raw |-> RawRow(f[present[k]])], ticker)]

\* the tables get_stock_data may return for a ticker
Tables(ticker) ==
    {DataFrame(TableRows(f, ticker)) : f \in [1 .. Len(TableDays) -> 0 .. MaxClose]}

\* the rows a committed persist of a table leaves in an empty database
StoreOf(dfv) == {StoreRow(dfv.rows[i]) : i \in 1 .. Len(dfv.rows)}

Init ==
    /\ \E a \in Tables("SPOT"), b \in Tables("SIRI") :
          store = [d \in Databases |->
                     IF d = ticker_db_map["SPOT"] THEN StoreOf(a) ELSE StoreOf(b)]
    /\ fetchCall = NoFetch
    /\ call = NoCall
    /\ MainIdle

\* the result of a call without the store it leaves
Seen(r) ==
    [outcome |-> r.outcome, log |-> r.log, connection |-> r.connection,
     executed |-> r.executed, committed |-> r.committed]

UploadCall(ticker, dfv, fault, repeat) ==
    LET r == upload_to_rds_per_service(dfv, ticker, store, fault)
    IN  /\ call' = [op |-> "upload", ticker |-> ticker, df |-> dfv, fault |-> fault,
                    repeat |-> repeat, pre |-> store, res |-> Seen(r)]
        /\ store' = r.store
        /\ UNCHANGED <<fetchCall, pc, idx, df, dataframes, files, hist>>

Upload ==
    /\ call.op = "none"
    /\ \E ticker \in {"SPOT", "SIRI", OtherTicker} :
          \E dfv \in Tables(ticker) :
             \E fault \in (IF ticker = OtherTicker THEN {NoFault}
                           ELSE UploadFaults(Len(dfv.rows))) :
                UploadCall(ticker, dfv, fault, FALSE)

UploadAgain ==
    /\ call.op = "upload"
    /\ call.res.committed
    /\ \E fault \in UploadFaults(Len(call.df.rows)) :
          UploadCall(call.ticker, call.df, fault, TRUE)

CompareCompanies ==
    /\ call.op = "none"
    /\ \E a \in Tables("SPOT"), b \in Tables("SIRI") :
          call' = [op |-> "compare_companies", df1 |-> a, df2 |-> b,
                   res |-> compare_companies(a, b)]
    /\ UNCHANGED <<store, fetchCall, pc, idx, df, dataframes, files, hist>>

CompareServices ==
    /\ call.op = "none"
    /\ \E s \in DayCands, e \in DayCands, f1 \in ReaderFaults, f2 \in ReaderFaults :
          /\ s <= e
          /\ call' = [op |-> "compare_services", start_date |-> s, end_date |-> e,
                      faults |-> <<f1, f2>>,
                      res |-> compare_services(s, e, store, f1, f2)]
    /\ UNCHANGED <<store, fetchCall, pc, idx, df, dataframes, files, hist>>

GetAllData ==
    /\ call.op = "none"
    /\ \E ticker \in {"SPOT", "SIRI", OtherTicker}, fault \in ReaderFaults :
          call' = [op |-> "get_all_data", ticker |-> ticker, fault |-> fault,
                   res |-> get_all_data(ticker, store, fault)]
    /\ UNCHANGED <<store, fetchCall, pc, idx, df, dataframes, files, hist>>

GetDataByDateRange ==
    /\ call.op = "none"
    /\ \E ticker \in {"SPOT", "SIRI", OtherTicker}, fault \in ReaderFaults,
          s \in DayCands, e \in DayCands :
          /\ s <= e
          /\ call' = [op |-> "get_data_by_date_range", ticker |-> ticker,
                      fault |-> fault, start_date |-> s, end_date |-> e,
                      res |-> get_data_by_date_range(ticker, s, e, store, fault)]
    /\ UNCHANGED <<store, fetchCall, pc, idx, df, dataframes, files, hist>>

GetLatestRecords ==
    /\ call.op = "none"
    /\ \E ticker \in {"SPOT", "SIRI", OtherTicker}, fault \in ReaderFaults,
          days \in {1, days_default} :
          call' = [op |-> "get_latest_records", ticker |-> ticker, fault |-> fault,
                   days |-> days,
                   res |-> get_latest_records(ticker, days, store, fault)]
    /\ UNCHANGED <<store, fetchCall, pc, idx, df, dataframes, files, hist>>

Next ==
    \/ Upload
    \/ UploadAgain
    \/ CompareCompanies
    \/ CompareServices
    \/ GetAllData
    \/ GetDataByDateRange
    \/ GetLatestRecords

Spec == Init /\ [][Next]_vars

(***************************************************************************)
(* Properties of the comparison (Spec).                                    *)
(***************************************************************************)
IsComparison ==
    \/ call.op = "compare_companies"
    \/ call.op = "compare_services" /\ call.faults = <<"ok", "ok">>

\* the timestamps of the rows of a database within the range of the call
StoredIndex(ticker) ==
    {to_datetime(r.date) : r \in {q \in store[ticker_db_map[ticker]] :
                                    call.start_date <= q.date /\ q.date <= call.end_date}}

\* the date sets of the two series a comparison is given
DatesA == IF call.op = "compare_companies" THEN IndexSet(call.df1.rows)
          ELSE StoredIndex("SPOT")

DatesB == IF call.op = "compare_companies" THEN IndexSet(call.df2.rows)
          ELSE StoredIndex("SIRI")

ReturnedTable == call.res.outcome = Return("DataFrame")

\* the two closes of a row of the table, as fractions
ClosesOf(row) ==
    IF call.op = "compare_companies"
    THEN <<(<<row.Close_SPOT, 1>>), (<<row.Close_SIRI, 1>>)>>
    ELSE <<row.SPOT, row.SIRI>>

\* C1: whenever the two series of a comparison (compare_companies, or
\* compare_services with both reads succeeding) share a date, the comparison
\* returns a table whose dates are exactly the shared dates, each once.
C1_DatesAreIntersection ==
    (IsComparison /\ DatesA \cap DatesB # {}) =>
        /\ ReturnedTable
        /\ IndexSet(call.res.table) = DatesA \cap DatesB
        /\ Len(call.res.table) = Cardinality(DatesA \cap DatesB)

\* C2: in every comparison of two series that returns a table, both series
\* are normalised by their close on the first (earliest) row of the table:
\* norm = close / close[0] * 100, so that the first row holds 100 for both.
C2_NormalisedToFirstRow ==
    (IsComparison /\ ReturnedTable /\ DatesA # {} /\ DatesB # {}) =>
        LET t == call.res.table
        IN  /\ t[1].SPOT_Norm = Hundred
            /\ t[1].SIRI_Norm = Hundred
            /\ \A i \in 1 .. Len(t) :
                  /\ ClosesOf(t[i])[1] # NaN /\ ClosesOf(t[i])[2] # NaN
                  /\ t[i].SPOT_Norm = NormOf(ClosesOf(t[i])[1], ClosesOf(t[1])[1])
                  /\ t[i].SIRI_Norm = NormOf(ClosesOf(t[i])[2], ClosesOf(t[1])[2])
                  /\ \A j \in 1 .. Len(t) : i < j => t[i].index < t[j].index

\* C3: compare_companies on two series with no date in common fails with
\* ComparisonError(EmptyOverlap), returning no table and drawing no chart.
C3_EmptyOverlapError ==
    (call.op = "compare_companies"
     /\ call.df1.rows # <<>> /\ call.df2.rows # <<>>
     /\ IndexSet(call.df1.rows) \cap IndexSet(call.df2.rows) = {}) =>
        /\ call.res.outcome = Raise("ComparisonError(EmptyOverlap)")
        /\ call.res.table = <<>>
        /\ ~call.res.chart

(***************************************************************************)
(* Properties of the persistence (Spec).                                   *)
(***************************************************************************)
\* the rows of the call's database that carry the key of row i of the table
RowsWithKeyOf(i) ==
    {r \in store[ticker_db_map[call.ticker]] :
        /\ r.date = DateOf(call.df.rows[i].index)
        /\ r.ticker = call.df.rows[i].Ticker}

\* C4: after a persist that committed, the store holds exactly one row per
\* (date, ticker) of the table, with the values just written; and when the
\* same table had just been persisted, the store is as that persist left it.
C4_PersistIdempotent ==
    (call.op = "upload" /\ call.res.committed) =>
        /\ \A i \in 1 .. Len(call.df.rows) :
              RowsWithKeyOf(i) =
                 {[date |-> DateOf(call.df.rows[i].index),
                   open |-> call.df.rows[i].Open, high |-> call.df.rows[i].High,
                   low |-> call.df.rows[i].Low, close |-> call.df.rows[i].Close,
                   volume |-> call.df.rows[i].Volume \div Scale,
                   ticker |-> call.ticker]}
        /\ call.repeat => store = call.pre

\* a table of two rows persisted a second time
C4_Witness ==
    /\ call.op = "upload" /\ call.res.committed /\ call.repeat
    /\ Len(call.df.rows) = 2
    /\ Cardinality(store[ticker_db_map[call.ticker]]) = 2

\* the causes of failure the caller is to tell apart, and success
PersistCauses == {"success", "connection failure", "authentication failure",
                  "no destination"}

CauseOfCall ==
    IF call.ticker \notin DOMAIN ticker_db_map THEN "no destination"
    ELSE IF call.fault.connect = "refused" THEN "connection failure"
    ELSE IF call.fault.connect = "denied" THEN "authentication failure"
    ELSE IF call.fault = NoFault THEN "success"
    ELSE "other"

\* how a persist of the call's table ends for its caller under a cause
OutcomeUnder(cause) ==
    upload_to_rds_per_service(
        call.df,
        IF cause = "no destination" THEN OtherTicker
        ELSE IF call.ticker \in DOMAIN ticker_db_map THEN call.ticker ELSE "SPOT",
        call.pre,
        IF cause = "connection failure"
        THEN [connect |-> "refused", failAt |-> 0, alive |-> FALSE]
        ELSE IF cause = "authentication failure"
        THEN [connect |-> "denied", failAt |-> 0, alive |-> FALSE]
        ELSE NoFault).outcome

\* C7: a persist that fails for want of a connection, of valid credentials
\* or of a destination ends, for its caller, unlike a persist failing for
\* another of these causes and unlike a successful one.
C7_DistinctPersistErrors ==
    (call.op = "upload" /\ CauseOfCall \in PersistCauses \ {"success"}) =>
        \A c \in PersistCauses \ {CauseOfCall} : OutcomeUnder(c) # call.res.outcome

\* C8: when the upsert of row k fails, no row from k on is written and the
\* call ends for its caller with an error, unlike a successful persist.
C8_RowFailureSurfaced ==
    (call.op = "upload" /\ call.ticker \in DOMAIN ticker_db_map
     /\ call.fault.connect = "ok" /\ call.fault.failAt >= 1) =>
        /\ Len(call.res.executed) < call.fault.failAt
        /\ store = call.pre
        /\ call.res.outcome.kind = "raise"
        /\ call.res.outcome # OutcomeUnder("success")

\* C9: when a store operation ends, whatever happened in it, no connection
\* it opened is left open, and releasing it raised no error of its own.
C9_ConnectionReleased ==
    (call.op \in {"upload", "get_all_data", "get_data_by_date_range",
                  "get_latest_records"}) =>
        /\ call.res.connection \in {"none", "unbound", "closed", "not connected"}
        /\ call.res.outcome # Raise("UnboundLocalError")

(***************************************************************************)
(* Properties of the fetch (SpecFetch).                                    *)
(***************************************************************************)
Fetched == fetchCall.op = "get_stock_data" /\ ~fetchCall.result.none

\* the calendar days of the provider's answer
AnswerDays == {fetchCall.http.series[i].date : i \in 1 .. Len(fetchCall.http.series)}

\* the row of the answer for a day, as the floats it denotes
AnswerRow(d) ==
    (CHOOSE e \in {fetchCall.http.series[i] : i \in 1 .. Len(fetchCall.http.series)} :
        e.date = d).row

RowsFaithful ==
    LET rows == fetchCall.result.rows
    IN  \A i \in 1 .. Len(rows) :
           /\ rows[i].Ticker = fetchCall.ticker
           /\ rows[i].Open = Float(AnswerRow(DateOf(rows[i].index))["1. open"])
           /\ rows[i].High = Float(AnswerRow(DateOf(rows[i].index))["2. high"])
           /\ rows[i].Low = Float(AnswerRow(DateOf(rows[i].index))["3. low"])
           /\ rows[i].Close = Float(AnswerRow(DateOf(rows[i].index))["4. close"])
           /\ rows[i].Volume = Float(AnswerRow(DateOf(rows[i].index))["5. volume"])
           /\ \A j \in 1 .. Len(rows) : i < j => rows[i].index < rows[j].index

\* C5, as claimed: a successful fetch returns exactly the rows of the answer
\* whose date lies between the day of start_date and the day of end_date,
\* both days included, ascending and tagged with the ticker.
C5_WindowOfDays ==
    Fetched =>
        /\ {DateOf(ts) : ts \in IndexSet(fetchCall.result.rows)} =
              {d \in AnswerDays : /\ DateOf(fetchCall.start_date) <= d
                                  /\ d <= DateOf(fetchCall.end_date)}
        /\ RowsFaithful

\* C5, amended: a successful fetch returns exactly the rows of the answer
\* whose date, taken at midnight, lies between the instants start_date and
\* end_date, both included, ascending and tagged with the ticker.
C5_WindowOfInstants ==
    Fetched =>
        /\ IndexSet(fetchCall.result.rows) =
              {d * TicksPerDay : d \in {x \in AnswerDays :
                                          /\ fetchCall.start_date <= x * TicksPerDay
                                          /\ x * TicksPerDay <= fetchCall.end_date}}
        /\ Len(fetchCall.result.rows) = Cardinality(IndexSet(fetchCall.result.rows))
        /\ RowsFaithful

\* an answer of three days out of order, one of them outside the window,
\* fetched into the two rows of the days on the window's two ends
C5_Witness ==
    /\ Fetched
    /\ Len(fetchCall.http.series) = 3
    /\ fetchCall.http.series[1].date > fetchCall.http.series[2].date
    /\ Len(fetchCall.result.rows) = 2
    /\ DateOf(fetchCall.result.rows[1].index) = DateOf(fetchCall.start_date)
    /\ fetchCall.result.rows[2].index = fetchCall.end_date

\* C6: a transport failure, a non-success status or an answer without the
\* time-series key makes get_stock_data return None: no table, not even an
\* empty one.
C6_FailureReturnsNone ==
    (fetchCall.op = "get_stock_data"
     /\ fetchCall.http.kind \in {"transport", "status", "nokey"}) =>
        fetchCall.result = None

C6_Witness ==
    /\ fetchCall.op = "get_stock_data"
    /\ fetchCall.http.kind = "nokey"
    /\ fetchCall.result = None

(***************************************************************************)
(* SpecMain: one run of the main block of comparison.py, on an empty       *)
(* store.                                                                  *)
(***************************************************************************)
\* save_to_csv: the file it writes, if any
save_to_csv(dfv, ticker) ==
    IF ~dfv.none /\ dfv.rows # <<>> THEN {<<ticker, "stock_data.csv">>} ELSE {}

InitMain ==
    /\ store = [d \in Databases |-> {}]
    /\ fetchCall = NoFetch
    /\ call = NoCall
    /\ pc = "fetch" /\ idx = 1 /\ df = None
    /\ dataframes = [t \in {} |-> None]
    /\ files = {}
    /\ hist = [fetched |-> {}, uploaded |-> {}, failed |-> {}, compared |-> FALSE]

\* the for loop goes on to the next ticker, or ends
Advance ==
    /\ idx' = idx + 1
    /\ pc' = IF idx = Len(TICKERS) THEN "check" ELSE "fetch"

\* df = get_stock_data(ticker, API_KEY); if df is not None:
MainFetch ==
    /\ pc = "fetch"
    /\ \E http \in HttpOutcomes, now \in Nows :
          LET r == get_stock_data(TICKERS[idx], http, now)
          IN  /\ df' = r
              /\ IF r.none
                 THEN Advance /\ hist' = hist
                 ELSE /\ pc' = "save" /\ idx' = idx
                      /\ hist' = [hist EXCEPT !.fetched = @ \cup {TICKERS[idx]}]
    /\ UNCHANGED <<store, fetchCall, call, dataframes, files>>

\* save_to_csv(df, ticker)
MainSave ==
    /\ pc = "save"
    /\ files' = files \cup save_to_csv(df, TICKERS[idx])
    /\ pc' = "upload"
    /\ UNCHANGED <<store, fetchCall, call, idx, df, dataframes, hist>>

\* upload_to_rds_per_service(df, ticker, **RDS_CONFIG); an exception it
\* raises ends the script
MainUpload ==
    /\ pc = "upload"
    /\ \E fault \in UploadFaults(Len(df.rows)) :
          LET r == upload_to_rds_per_service(df, TICKERS[idx], store, fault)
          IN  /\ store' = r.store
              /\ pc' = IF r.outcome.kind = "raise" THEN "crashed" ELSE "keep"
              /\ hist' = IF r.committed
                         THEN [hist EXCEPT !.uploaded = @ \cup {TICKERS[idx]}]
                         ELSE [hist EXCEPT !.failed = @ \cup {TICKERS[idx]}]
    /\ UNCHANGED <<fetchCall, call, idx, df, dataframes, files>>

\* dataframes[ticker] = df
MainKeep ==
    /\ pc = "keep"
    /\ dataframes' = (TICKERS[idx] :> df) @@ dataframes
    /\ Advance
    /\ UNCHANGED <<store, fetchCall, call, df, files, hist>>

\* if len(dataframes) == 2: compare_companies, comparison_df.to_csv
MainCompare ==
    /\ pc = "check"
    /\ Cardinality(DOMAIN dataframes) = 2
    /\ LET r == compare_companies(dataframes["SPOT"], dataframes["SIRI"])
       IN  /\ hist' = [hist EXCEPT !.compared = TRUE]
           /\ files' = files
                       \cup (IF r.chart THEN {<<"spot_vs_siri_performance.png">>} ELSE {})
                       \cup (IF r.outcome.kind = "return"
                             THEN {<<"SPOT_SIRI_comparison.csv">>} ELSE {})
           /\ pc' = IF r.outcome.kind = "raise" THEN "crashed" ELSE "done"
    /\ UNCHANGED <<store, fetchCall, call, idx, df, dataframes>>

\* else: print("Could not retrieve data for both companies")
MainNoCompare ==
    /\ pc = "check"
    /\ Cardinality(DOMAIN dataframes) # 2
    /\ pc' = "done"
    /\ UNCHANGED <<store, fetchCall, call, idx, df, dataframes, files, hist>>

NextMain ==
    \/ MainFetch
    \/ MainSave
    \/ MainUpload
    \/ MainKeep
    \/ MainCompare
    \/ MainNoCompare

SpecMain == InitMain /\ [][NextMain]_vars

\* C10: when the run has ended, the comparison was made if and only if both
\* fetches succeeded; a ticker whose fetch failed was neither persisted nor
\* kept for the comparison; a persist that failed did not stand in the way.
C10_CompareIffBothFetched ==
    (pc \in {"done", "crashed"}) =>
        /\ hist.compared <=> hist.fetched = {"SPOT", "SIRI"}
        /\ \A t \in {"SPOT", "SIRI"} \ hist.fetched :
              /\ t \notin hist.uploaded \cup hist.failed
              /\ t \notin DOMAIN dataframes
        /\ \A t \in DOMAIN dataframes :
              dataframes[t].rows # <<>> => <<t, "stock_data.csv">> \in files

=============================================================================
